---- MODULE Spec2Model ----
(***************************************************************************)
(* A model of the Cursor updater: src/lib/main.py (the installed script)   *)
(* and src/update-cursor.py (the older variant of the same script).        *)
(*                                                                         *)
(* One run of main() is a linear pipeline over a shared filesystem: the    *)
(* install paths, the version-record files, the desktop launcher and the   *)
(* scratch files of the downloads.  Every file the pipeline reads or       *)
(* writes is a variable; every step of the pipeline is an action; the      *)
(* failures a step can meet (an exception of the operating system or of    *)
(* the network, an interrupt) are inputs of its action.                    *)
(***************************************************************************)
EXTENDS Integers, Sequences, FiniteSets, TLC

(***************************************************************************)
(* Bounds of the model.                                                    *)
(***************************************************************************)
\* Chunks of a complete artifact body (response.iter_content yields them).
NumChunks == 2
\* Scratch names tempfile.NamedTemporaryFile can hand out.
MaxTmp == 2
\* Pieces of a launcher that exists before update_desktop_file is called on its own.
MaxLines == 2
\* Components of a version string handed to compare_versions on its own.
MaxParts == 3
\* The largest number of a component of such a version string.
MaxNumber == 2
\* Entries of a manifest handed to the resolution of the latest version.
MaxEntries == 3
\* Components of each of three version strings compared with one another.
MaxOrderParts == 2

(***************************************************************************)
(* Strings.  A version string is the sequence of its dot-separated         *)
(* components; a component is a pair <<kind, n>>:                          *)
(*   <<"d", n>>  the decimal digits of n as str(n) prints them,            *)
(*   <<"z", n>>  the digits of n behind a leading zero ("05"): int() reads *)
(*               n, str() does not print it back,                          *)
(*   <<"x", 0>>  a component int() rejects with ValueError,                *)
(*   <<"nl", 0>> white space around the text (a trailing newline).         *)
(* The empty string is <<>>; Python's None is the value None.              *)
(***************************************************************************)
D(n) == <<"d", n>>
Z(n) == <<"z", n>>
X == <<"x", 0>>
NL == <<"nl", 0>>
None == << <<"None", 0>> >>
\* The content of a file that does not exist.
Absent == << <<"absent", 0>> >>

Max(a, b) == IF a >= b THEN a ELSE b

\* Python truthiness of an Optional[str].
Falsy(s) == s = None \/ s = <<>>

RECURSIVE StripLeft(_)
StripLeft(s) ==
    IF s # <<>> /\ s[1] = NL THEN StripLeft(Tail(s)) ELSE s

RECURSIVE StripRight(_)
StripRight(s) ==
    IF s # <<>> /\ s[Len(s)] = NL THEN StripRight(SubSeq(s, 1, Len(s) - 1)) ELSE s

\* str.strip()
Strip(s) == StripRight(StripLeft(s))

\* Whether [int(x) for x in s.split('.')] raises: ''.split('.') is [''] and
\* int('') raises; int() itself tolerates surrounding white space.
CanParse(s) ==
    /\ s # None
    /\ s # Absent
    /\ SelectSeq(s, LAMBDA c : c # NL) # <<>>
    /\ \A i \in 1..Len(s) : s[i][1] \in {"d", "z", "nl"}

\* [int(x) for x in s.split('.')]
ParseInts(s) ==
    LET t == SelectSeq(s, LAMBDA c : c # NL)
    IN  [i \in 1..Len(t) |-> t[i][2]]

\* '.'.join(map(str, parts))
JoinStr(parts) == [i \in 1..Len(parts) |-> D(parts[i])]

\* Python's a > b on lists of ints: lexicographic, a proper prefix is smaller.
RECURSIVE ListGT(_, _)
ListGT(a, b) ==
    IF a = <<>> THEN FALSE
    ELSE IF b = <<>> THEN TRUE
    ELSE IF a[1] # b[1] THEN a[1] > b[1]
    ELSE ListGT(Tail(a), Tail(b))

\* parts.extend([0] * (max_len - len(parts)))
PadZeros(parts, max_len) ==
    parts \o [i \in 1..(max_len - Len(parts)) |-> 0]

\* compare_versions with >= for >: an equal version counts as newer.
compare_versions_or_equal(current_version, latest_version) ==
    IF Falsy(current_version) THEN TRUE
    ELSE IF ~CanParse(current_version) \/ ~CanParse(latest_version) THEN TRUE
    ELSE LET current_parts == ParseInts(current_version)
             latest_parts == ParseInts(latest_version)
             max_len == Max(Len(current_parts), Len(latest_parts))
         IN  ~ListGT(PadZeros(current_parts, max_len), PadZeros(latest_parts, max_len))

\* compare_versions without its padding of the shorter list.
compare_versions_unpadded(current_version, latest_version) ==
    IF Falsy(current_version) THEN TRUE
    ELSE IF ~CanParse(current_version) \/ ~CanParse(latest_version) THEN TRUE
    ELSE ListGT(ParseInts(latest_version), ParseInts(current_version))

\* compare_versions failing closed: a string it cannot parse is not newer.
compare_versions_closed(current_version, latest_version) ==
    IF Falsy(current_version) THEN TRUE
    ELSE IF ~CanParse(current_version) \/ ~CanParse(latest_version) THEN FALSE
    ELSE LET current_parts == ParseInts(current_version)
             latest_parts == ParseInts(latest_version)
             max_len == Max(Len(current_parts), Len(latest_parts))
         IN  ListGT(PadZeros(latest_parts, max_len), PadZeros(current_parts, max_len))

\* compare_versions looking at the first number of each version only.
compare_versions_first_part(current_version, latest_version) ==
    IF Falsy(current_version) THEN TRUE
    ELSE IF ~CanParse(current_version) \/ ~CanParse(latest_version) THEN TRUE
    ELSE ParseInts(latest_version)[1] > ParseInts(current_version)[1]

compare_versions(current_version, latest_version) ==
    IF Falsy(current_version) THEN TRUE
    ELSE IF ~CanParse(current_version) \/ ~CanParse(latest_version) THEN TRUE
    ELSE LET current_parts == ParseInts(current_version)
             latest_parts == ParseInts(latest_version)
             max_len == Max(Len(current_parts), Len(latest_parts))
         IN  ListGT(PadZeros(latest_parts, max_len), PadZeros(current_parts, max_len))


(***************************************************************************)
(* The version manifest (data/version-history.json): the file is absent,   *)
(* is not JSON, or holds a list of entries {version, platforms}.  A key    *)
(* that an entry lacks is None (version) or "" (a platform's URL).         *)
(***************************************************************************)
Entry(v, linux, darwin) ==
    [version |-> v, platforms |-> [linux_x64 |-> linux, darwin_arm64 |-> darwin]]

NoInfo == Entry(None, "", "")

ManifestAbsent == [state |-> "absent", versions |-> <<>>]
ManifestNotJson == [state |-> "notjson", versions |-> <<>>]
ManifestOf(versions) == [state |-> "json", versions |-> versions]

\* The loop of download_cursor_appimage over version_data['versions']:
\* acc is (latest_version, latest_version_info), raised a ValueError of int().
RECURSIVE SelectLoop(_, _)
SelectLoop(versions, acc) ==
    IF versions = <<>> \/ acc.raised THEN acc
    ELSE LET version_info == Head(versions)
             version == version_info.version
         IN  IF Falsy(version) THEN SelectLoop(Tail(versions), acc)
             ELSE IF ~CanParse(version) THEN [acc EXCEPT !.raised = TRUE]
             ELSE LET version_parts == ParseInts(version)
                  IN  IF ~acc.found
                      THEN SelectLoop(Tail(versions),
                               [acc EXCEPT !.found = TRUE,
                                           !.latest_version = version_parts,
                                           !.latest_version_info = version_info])
                      ELSE IF ListGT(version_parts, acc.latest_version)
                      THEN SelectLoop(Tail(versions),
                               [acc EXCEPT !.latest_version = version_parts,
                                           !.latest_version_info = version_info])
                      ELSE SelectLoop(Tail(versions), acc)

SelectLatest(versions) ==
    SelectLoop(versions,
               [found |-> FALSE, raised |-> FALSE,
                latest_version |-> <<>>, latest_version_info |-> NoInfo])

(***************************************************************************)
(* The environment of a run and the paths it resolves.  A path is a pair   *)
(* <<directory, rest>> (str(path) is their concatenation).                 *)
(***************************************************************************)
Homes == {"/home/alice", "/root", "/home/root"}

\* f'/home/{original_home}'
HomeOfUser(u) ==
    CASE u = "alice" -> "/home/alice"
      [] u = "root" -> "/home/root"

\* The environment: the script that runs, os.geteuid(), os.environ.get('SUDO_USER')
\* ("" when unset) and Path.home().
Env(script, euid, sudo_user, home) ==
    [script |-> script, euid |-> euid, SUDO_USER |-> sudo_user, home |-> home]

Envs ==
    { Env("lib/main.py", 1000, "", "/home/alice"),         \* alice
      Env("lib/main.py", 0, "alice", "/root"),             \* alice's sudo
      Env("lib/main.py", 0, "", "/root"),                  \* a root login
      Env("lib/main.py", 1000, "root", "/home/alice"),     \* root's sudo -u alice
      Env("update-cursor.py", 1000, "", "/home/alice"),
      Env("update-cursor.py", 0, "alice", "/root"),
      Env("update-cursor.py", 1000, "root", "/home/alice") }

is_sudo(e) == e.euid = 0

\* A home_path that is the home directory of the process, SUDO_USER or not.
home_path_of_process(e) == e.home

\* The home_path of update_desktop_file, check_installation_conflicts,
\* get_current_version and update_version_file.
home_path(e) == IF e.SUDO_USER # "" THEN HomeOfUser(e.SUDO_USER) ELSE e.home

system_cursor == <<"", "/usr/local/bin/cursor">>
user_cursor(h) == <<h, "/.local/bin/cursor">>
InstallPaths == {system_cursor} \cup {user_cursor(h) : h \in Homes}

primary_version_file == <<"", "/opt/update-cursor/config/version.txt">>
user_version_file(h) == <<h, "/.local/bin/cursor_version.txt">>
cwd_version_file == <<"cwd", "/cursor_version.txt">>
projects_version_file(h) == <<h, "/Projects/update-cursor/cursor_version.txt">>
VersionPaths ==
    {primary_version_file, cwd_version_file}
        \cup {user_version_file(h) : h \in Homes}
        \cup {projects_version_file(h) : h \in Homes}

(***************************************************************************)
(* Artifacts: an install path or a scratch file holds the body downloaded  *)
(* from a URL, of which `bytes` chunks are there, and its mode.            *)
(***************************************************************************)
NoFile == [url |-> "", bytes |-> 0, exec |-> FALSE]
OldInstall == [url |-> "old", bytes |-> NumChunks, exec |-> TRUE]
Exists(f) == f # NoFile


(***************************************************************************)
(* The desktop launcher.  Its content is the sequence of the pieces        *)
(* between its newlines (a content that ends with a newline has an empty   *)
(* last piece); a piece is a sequence of tokens; a token is a pair of      *)
(* strings (a path's two parts, or <<"", text>>).  "Exec=" is a token of   *)
(* its own wherever that text occurs, so 'TryExec=cursor' is the three     *)
(* tokens Try, Exec=, cursor.                                              *)
(***************************************************************************)
T(text) == <<"", text>>
ExecKey == T("Exec=")
NoDesktop == << << <<"absent", "">> >> >>

desktop_file(h) == <<h, "/.local/share/applications/cursor.desktop">>

\* f"Exec={exec_path} %U --no-sandbox"
new_exec_line(exec_path) == <<ExecKey, exec_path, T(" %U --no-sandbox")>>

\* The template update_desktop_file writes when the launcher does not exist.
desktop_content(exec_path) ==
    << <<T("[Desktop Entry]")>>,
       <<T("Version=1.0")>>,
       <<T("Type=Application")>>,
       <<T("Name=Cursor")>>,
       <<T("Comment=The AI-first code editor")>>,
       new_exec_line(exec_path),
       <<T("Icon=cursor")>>,
       <<T("Terminal=false")>>,
       <<T("Categories=Development;TextEditor;")>>,
       <<T("StartupWMClass=cursor")>>,
       <<>> >>

\* The places of pattern r'Exec=.*' in a piece ('.' does not match a newline).
ExecAt(piece) == {j \in 1..Len(piece) : piece[j] = ExecKey}

\* re.search(pattern, content)
re_search(content) == \E i \in 1..Len(content) : ExecAt(content[i]) # {}

\* re.sub(pattern, new_exec_line, content): every match is replaced, and a match
\* runs from its 'Exec=' to the end of its line.
re_sub(line, content) ==
    [i \in 1..Len(content) |->
        IF ExecAt(content[i]) = {} THEN content[i]
        ELSE LET j == CHOOSE k \in ExecAt(content[i]) :
                          \A m \in ExecAt(content[i]) : k <= m
             IN  SubSeq(content[i], 1, j - 1) \o line]

\* The exec_path of update_desktop_file in src/lib/main.py, from the installs
\* it finds on disk.
exec_path_lib(e, installs) ==
    IF Exists(installs[system_cursor]) THEN system_cursor
    ELSE IF Exists(installs[user_cursor(home_path(e))]) THEN user_cursor(home_path(e))
    ELSE IF is_sudo(e) THEN system_cursor
    ELSE user_cursor(home_path(e))

\* The exec_path of update_desktop_file in src/update-cursor.py.
exec_path_old(e) ==
    IF is_sudo(e) THEN system_cursor ELSE user_cursor(home_path(e))

exec_path(e, installs) ==
    IF e.script = "lib/main.py" THEN exec_path_lib(e, installs) ELSE exec_path_old(e)

\* update_desktop_file appending its line whether or not one is there.
updated_content_appends(content, path) ==
    content \o <<new_exec_line(path), <<>>>>

\* The content update_desktop_file writes over an existing launcher.
updated_content(content, path) ==
    IF re_search(content) THEN re_sub(new_exec_line(path), content)
    ELSE content \o <<new_exec_line(path), <<>>>>

\* The content update_desktop_file writes, the launcher existing or not.
written_content(content, path) ==
    IF content = NoDesktop THEN desktop_content(path)
    ELSE updated_content(content, path)

(***************************************************************************)
(* check_installation_conflicts: the list `conflicts` it builds.           *)
(***************************************************************************)
\* check_installation_conflicts without its check of both installs.
conflicts_mode_only(e, installs) ==
    LET system_exists == Exists(installs[system_cursor])
        user_exists == Exists(installs[user_cursor(home_path(e))])
    IN  (IF is_sudo(e) /\ user_exists
         THEN <<"Running with sudo but user-specific installation exists">>
         ELSE <<>>)
        \o
        (IF ~is_sudo(e) /\ system_exists
         THEN <<"Running without sudo but system-wide installation exists">>
         ELSE <<>>)

conflicts(e, installs) ==
    LET system_exists == Exists(installs[system_cursor])
        user_exists == Exists(installs[user_cursor(home_path(e))])
    IN  (IF system_exists /\ user_exists
         THEN <<"Both system-wide and user-specific installations found">>
         ELSE <<>>)
        \o
        (IF is_sudo(e) /\ user_exists
         THEN <<"Running with sudo but user-specific installation exists">>
         ELSE <<>>)
        \o
        (IF ~is_sudo(e) /\ system_exists
         THEN <<"Running without sudo but system-wide installation exists">>
         ELSE <<>>)

(***************************************************************************)
(* get_current_version: the record file it picks, and what it returns.     *)
(***************************************************************************)
\* get_current_version looking in the current directory first.
version_files_cwd_first(e) ==
    IF e.script = "lib/main.py"
    THEN <<cwd_version_file, primary_version_file, user_version_file(home_path(e))>>
    ELSE <<projects_version_file(home_path(e))>>

version_files(e) ==
    IF e.script = "lib/main.py"
    THEN <<primary_version_file, user_version_file(home_path(e)), cwd_version_file>>
    ELSE <<projects_version_file(home_path(e))>>

\* The first existing candidate, or <<>> when none exists.
found_version_file(e, records) ==
    LET vfs == version_files(e)
        there == {i \in 1..Len(vfs) : records[vfs[i]] # Absent}
    IN  IF there = {} THEN <<>>
        ELSE <<vfs[CHOOSE i \in there : \A k \in there : i <= k]>>

\* read_ok: whether version_file.read_text() succeeds.
get_current_version(e, records, read_ok) ==
    LET version_file == found_version_file(e, records)
    IN  IF version_file = <<>> THEN None
        ELSE IF read_ok THEN Strip(records[version_file[1]])
        ELSE None


(***************************************************************************)
(* The state.                                                              *)
(*   env      the environment of the runs                                  *)
(*   bin      the artifact at each install path                            *)
(*   tmp      the artifact in each scratch file of the temporary directory *)
(*   records  the content of each version-record file                      *)
(*   desktop  the content of the launcher under each home directory        *)
(*   run      per process, the locals of main() and of                     *)
(*            download_cursor_appimage(), the place the run is at (pc) and *)
(*            what it has printed and returned: the steps it took, the     *)
(*            path install_cursor moved the artifact to (installed_at),    *)
(*            the path update_desktop_file wrote (launcher_exec), what     *)
(*            ended the pipeline early (why), the result it reported       *)
(*            (outcome), the summary and the exit code                     *)
(*            (outcome), the summary and the exit code; and, of a function *)
(*            called on its own, the value it returned (returned) and the  *)
(*            record files whose read_text() raises (unreadable)           *)
(*   start    per process, the files as they were when its run started     *)
(***************************************************************************)
VARIABLES env, bin, tmp, records, desktop, run, start

vars == <<env, bin, tmp, records, desktop, run, start>>

Procs == {"p1", "p2"}
TmpNames == 1..MaxTmp

V(a, b, c) == <<D(a), D(b), D(c)>>
\* The version download_cursor_appimage returns with a missing prerequisite.
NoVersion == V(0, 0, 0)
NoPath == <<"", "">>

IdleRun ==
    [pc |-> "idle",
     successful_checks |-> 0, failed_checks |-> 0,
     dl_successful |-> 0, dl_failed |-> 0,
     conflicts |-> <<>>,
     script_dir |-> "", ts_file |-> NoPath, helper_there |-> FALSE,
     bun_path |-> "",
     manifest |-> ManifestAbsent,
     latest_version_info |-> NoInfo, version_string |-> None,
     current_version |-> None,
     temp_file |-> 0,
     appimage_path |-> 0, version |-> None,
     installed_at |-> NoPath, launcher_exec |-> NoPath,
     why |-> "", outcome |-> "", exit_code |-> -1, summary |-> <<>>,
     returned |-> <<>>, unreadable |-> {},
     steps |-> <<>>]

\* The step an action takes, noted in the run's history.  `why` is what ended
\* the pipeline early, `outcome` what the run reported as it ended.
Did(r, step) == [r EXCEPT !.steps = Append(@, step)]

\* download_cursor_appimage returning like a missing prerequisite where it exits.
SysExit_returns(r, why) ==
    [r EXCEPT !.dl_failed = @ + 1, !.why = why,
              !.successful_checks = r.dl_successful, !.failed_checks = r.dl_failed + 1,
              !.appimage_path = 0, !.version = V(0, 0, 0), !.pc = "finish"]

\* sys.exit(1) inside download_cursor_appimage, after failed_checks += 1:
\* SystemExit passes main's handlers, which catch KeyboardInterrupt and Exception.
SysExit(r, why) ==
    [r EXCEPT !.dl_failed = @ + 1, !.pc = "done", !.exit_code = 1,
              !.why = why, !.outcome = "failed"]

\* return appimage_path, version, successful_checks, failed_checks; and main's
\* unpacking of the result.
Return(r, appimage_path, version) ==
    [r EXCEPT !.appimage_path = appimage_path, !.version = version,
              !.successful_checks = r.dl_successful,
              !.failed_checks = r.dl_failed,
              !.pc = IF appimage_path = 0 THEN "finish" ELSE "make_executable",
              \* the locals of download_cursor_appimage end with the call
              !.dl_successful = 0, !.dl_failed = 0,
              !.script_dir = "", !.ts_file = NoPath, !.helper_there = FALSE,
              !.bun_path = "", !.manifest = ManifestAbsent,
              !.latest_version_info = NoInfo, !.temp_file = 0]

\* The prerequisite failures: failed_checks += 1; return None, "0.0.0", ...
ReturnNoPrerequisite(r, why) ==
    Return([r EXCEPT !.dl_failed = @ + 1, !.why = why], 0, NoVersion)

\* print of the summary with main's counters.
Summary(r) == <<[successful |-> r.successful_checks, failed |-> r.failed_checks]>>

(***************************************************************************)
(* main(), to the call of download_cursor_appimage.                        *)
(***************************************************************************)
main_start(p) ==
    /\ run[p].pc = "idle"
    /\ start' = [start EXCEPT ![p] = [bin |-> bin, records |-> records,
                                      desktop |-> desktop, tmp |-> tmp]]
    /\ \E help \in BOOLEAN :
          run' = [run EXCEPT ![p] =
                    IF env.script = "lib/main.py" /\ help
                    THEN [Did(@, "help") EXCEPT !.pc = "done", !.exit_code = 0,
                                                !.outcome = "help"]
                    ELSE IF env.script = "lib/main.py"
                    THEN [Did(@, "start") EXCEPT !.pc = "conflicts"]
                    ELSE [Did(@, "start") EXCEPT !.pc = "find_helper"]]
    /\ UNCHANGED <<env, bin, tmp, records, desktop>>

\* main() ending the run at the check when it reports a conflict.
check_installation_conflicts_blocking(p) ==
    /\ run[p].pc = "conflicts"
    /\ run' = [run EXCEPT ![p] =
                 IF conflicts(env, bin) # <<>>
                 THEN [Did(@, "conflicts") EXCEPT !.conflicts = conflicts(env, bin),
                                                 !.pc = "done", !.exit_code = 1,
                                                 !.outcome = "conflict"]
                 ELSE [Did(@, "conflicts") EXCEPT !.pc = "find_helper"]]
    /\ UNCHANGED <<env, bin, tmp, records, desktop, start>>

check_installation_conflicts(p) ==
    /\ run[p].pc = "conflicts"
    /\ run' = [run EXCEPT ![p] =
                 [Did(@, "conflicts") EXCEPT !.conflicts = conflicts(env, bin),
                                             !.pc = "find_helper"]]
    /\ UNCHANGED <<env, bin, tmp, records, desktop, start>>

(***************************************************************************)
(* download_cursor_appimage: preflight.                                    *)
(***************************************************************************)
links_ts(dir) == <<dir, "/update-cursor-links.ts">>
fetch_updates_ts(dir) == <<dir, "/updater/fetch_updates.ts">>
HelperPaths ==
    {links_ts("filedir"), links_ts("cwd"), fetch_updates_ts("/opt/update-cursor"),
     fetch_updates_ts("filedir"), fetch_updates_ts("cwd")}

\* The three methods of src/lib/main.py: (script_dir, ts_file), or ("", NoPath).
find_helper_lib(present) ==
    IF links_ts("filedir") \in present THEN <<"filedir", links_ts("filedir")>>
    ELSE IF links_ts("cwd") \in present THEN <<"cwd", links_ts("cwd")>>
    ELSE IF fetch_updates_ts("/opt/update-cursor") \in present
    THEN <<"/opt/update-cursor", fetch_updates_ts("/opt/update-cursor")>>
    ELSE <<"", NoPath>>

\* src/update-cursor.py: ts_file = Path("update-cursor-links.ts").
find_helper_old(present) ==
    IF links_ts("cwd") \in present THEN <<"cwd", links_ts("cwd")>> ELSE <<"", NoPath>>

\* The file the command line of run_command names.
helper_run(script, script_dir) ==
    IF script = "lib/main.py" THEN fetch_updates_ts(script_dir) ELSE links_ts("cwd")

download_find_helper(p) ==
    /\ run[p].pc = "find_helper"
    /\ \E present \in SUBSET HelperPaths :
          LET found == IF env.script = "lib/main.py" THEN find_helper_lib(present)
                       ELSE find_helper_old(present)
          IN  run' = [run EXCEPT ![p] =
                        IF found[2] = NoPath
                        THEN ReturnNoPrerequisite(Did(@, "find_helper"), "no_helper")
                        ELSE [Did(@, "find_helper") EXCEPT
                                !.script_dir = found[1], !.ts_file = found[2],
                                !.helper_there =
                                    helper_run(env.script, found[1]) \in present,
                                !.pc = "find_bun"]]
    /\ UNCHANGED <<env, bin, tmp, records, desktop, start>>

\* bun_user: {user_home}/.bun/bin/bun exists; bun_which: `which bun` succeeds.
download_find_bun(p) ==
    /\ run[p].pc = "find_bun"
    /\ \E bun_user, bun_which \in BOOLEAN :
          run' = [run EXCEPT ![p] =
                    IF bun_user
                    THEN [Did(@, "find_bun") EXCEPT !.bun_path = "user", !.pc = "fetch"]
                    ELSE IF bun_which
                    THEN [Did(@, "find_bun") EXCEPT !.bun_path = "bun", !.pc = "fetch"]
                    ELSE ReturnNoPrerequisite(Did(@, "find_bun"), "no_bun")]
    /\ UNCHANGED <<env, bin, tmp, records, desktop, start>>


(***************************************************************************)
(* download_cursor_appimage: the external fetcher and the manifest.        *)
(***************************************************************************)
V140 == V(1, 4, 0)
V150 == V(1, 5, 0)

\* The manifests the fetcher may leave behind.
Manifests ==
    { ManifestAbsent,
      ManifestNotJson,
      ManifestOf(<<>>),
      ManifestOf(<<Entry(None, "u-none", "")>>),
      ManifestOf(<<Entry(V140, "u140", "")>>),
      ManifestOf(<<Entry(V140, "u140", ""), Entry(V150, "u150", "m150")>>),
      ManifestOf(<<Entry(V150, "", "m150")>>),
      ManifestOf(<<Entry(V150, "u150", ""), Entry(<<D(1), X>>, "u1x", "")>>),
      ManifestOf(<<Entry(<<D(1), Z(5), D(0)>>, "u1050", "")>>),
      ManifestOf(<<Entry(NoVersion, "u000", "")>>) }

\* rc_ok: the command exits 0, which it cannot when the file it names is
\* missing; manifest: the manifest file as the fetcher leaves it.
download_run_fetcher(p) ==
    /\ run[p].pc = "fetch"
    /\ \E rc_ok \in BOOLEAN, manifest \in Manifests :
          run' = [run EXCEPT ![p] =
                    IF rc_ok /\ @.helper_there
                    THEN [Did(@, "fetch") EXCEPT !.dl_successful = @ + 1,
                                                 !.manifest = manifest,
                                                 !.pc = "read_manifest"]
                    ELSE ReturnNoPrerequisite(Did(@, "fetch"), "fetch_failed")]
    /\ UNCHANGED <<env, bin, tmp, records, desktop, start>>

download_read_manifest(p) ==
    /\ run[p].pc = "read_manifest"
    /\ LET r == Did(run[p], "read_manifest")
           sel == SelectLatest(r.manifest.versions)
       IN  run' = [run EXCEPT ![p] =
                     IF r.manifest.state = "absent" THEN SysExit(r, "no_manifest")
                     ELSE IF r.manifest.state = "notjson" THEN SysExit(r, "not_json")
                     ELSE IF sel.raised
                     THEN SysExit([r EXCEPT !.dl_successful = @ + 1], "unexpected")
                     ELSE IF ~sel.found
                     THEN SysExit([r EXCEPT !.dl_successful = @ + 1], "no_versions")
                     ELSE [r EXCEPT !.dl_successful = @ + 2,
                                    !.latest_version_info = sel.latest_version_info,
                                    !.version_string = JoinStr(sel.latest_version),
                                    !.pc = "compare"]]
    /\ UNCHANGED <<env, bin, tmp, records, desktop, start>>

\* current_version = get_current_version(); compare_versions(...)
download_compare(p) ==
    /\ run[p].pc = "compare"
    /\ \E read_ok \in BOOLEAN :
          LET r == [Did(run[p], "compare") EXCEPT
                      !.current_version = get_current_version(env, records, read_ok),
                      !.dl_successful = @ + 1]
          IN  run' = [run EXCEPT ![p] =
                        IF ~compare_versions(r.current_version, r.version_string)
                        THEN Return([r EXCEPT !.why = "uptodate"], 0, r.version_string)
                        ELSE [r EXCEPT !.pc = "resolve_url"]]
    /\ UNCHANGED <<env, bin, tmp, records, desktop, start>>

\* download_cursor_appimage taking the URL of another platform when the entry
\* has none for linux-x64.
download_resolve_url_fallback(p) ==
    /\ run[p].pc = "resolve_url"
    /\ LET r == Did(run[p], "resolve_url")
           platforms == r.latest_version_info.platforms
           url == IF platforms.linux_x64 # "" THEN platforms.linux_x64
                  ELSE platforms.darwin_arm64
       IN  run' = [run EXCEPT ![p] =
                     IF url = "" THEN SysExit(r, "no_url")
                     ELSE [r EXCEPT !.dl_successful = @ + 1,
                                    !.latest_version_info.platforms.linux_x64 = url,
                                    !.pc = "open"]]
    /\ UNCHANGED <<env, bin, tmp, records, desktop, start>>

download_resolve_url(p) ==
    /\ run[p].pc = "resolve_url"
    /\ LET r == Did(run[p], "resolve_url")
           linux_x64_url == r.latest_version_info.platforms.linux_x64
       IN  run' = [run EXCEPT ![p] =
                     IF linux_x64_url = "" THEN SysExit(r, "no_url")
                     ELSE [r EXCEPT !.dl_successful = @ + 1, !.pc = "open"]]
    /\ UNCHANGED <<env, bin, tmp, records, desktop, start>>

(***************************************************************************)
(* download_cursor_appimage: the download into a scratch file.             *)
(***************************************************************************)
\* A handler that swallows the exception and returns the scratch file.
on_request_exception_returns(r) ==
    [r EXCEPT !.appimage_path = r.temp_file, !.version = r.version_string,
              !.successful_checks = r.dl_successful, !.failed_checks = r.dl_failed + 1,
              !.pc = "make_executable"]

\* except requests.RequestException: failed_checks += 1; sys.exit(1)
on_request_exception(r) == SysExit(r, "download_failed")

\* except KeyboardInterrupt, in main: the summary of main's counters, sys.exit(1)
on_keyboard_interrupt(r) ==
    [r EXCEPT !.pc = "done", !.exit_code = 1, !.why = "interrupt",
              !.outcome = "cancelled", !.summary = Summary(r)]

\* NamedTemporaryFile creates a file no other file of the directory has the
\* name of; the names are interchangeable, the model takes the least free one.
FreeTmp == {n \in TmpNames : ~Exists(tmp[n])}
\* A scratch file of one fixed name, whether or not a file has it.
NewTmp_fixed == CHOOSE n \in TmpNames : \A m \in TmpNames : n <= m

NewTmp == CHOOSE n \in FreeTmp : \A m \in FreeTmp : n <= m

\* how: the file cannot be created; the request fails (requests.get or
\* raise_for_status raise RequestException); the response starts.
download_open(p) ==
    /\ run[p].pc = "open"
    /\ FreeTmp # {}
    /\ \E how \in {"no_tmp", "http_error", "ok"} :
          LET r == Did(run[p], "open")
              url == r.latest_version_info.platforms.linux_x64
          IN  /\ run' = [run EXCEPT ![p] =
                           IF how = "no_tmp" THEN SysExit(r, "unexpected")
                           ELSE IF how = "http_error"
                           THEN on_request_exception([r EXCEPT !.temp_file = NewTmp])
                           ELSE [r EXCEPT !.temp_file = NewTmp, !.pc = "stream"]]
              /\ tmp' = IF how = "no_tmp" THEN tmp
                        ELSE [tmp EXCEPT ![NewTmp] =
                                [url |-> url, bytes |-> 0, exec |-> FALSE]]
    /\ UNCHANGED <<env, bin, records, desktop, start>>

\* One turn of `for chunk in response.iter_content(...)`: a chunk is written
\* (the last one ends the loop and the function returns the file's name), the
\* connection breaks, or the user interrupts the process.
download_stream(p) ==
    /\ run[p].pc = "stream"
    /\ \E event \in {"chunk", "network_error", "interrupt"} :
          LET r == Did(run[p], "stream")
              n == r.temp_file
          IN  CASE event = "chunk" ->
                     /\ tmp' = [tmp EXCEPT ![n].bytes = @ + 1]
                     /\ run' = [run EXCEPT ![p] =
                                  IF tmp[n].bytes + 1 = NumChunks
                                  THEN Return([r EXCEPT !.dl_successful = @ + 1],
                                              n, r.version_string)
                                  ELSE r]
                [] event = "network_error" ->
                     /\ tmp' = tmp
                     /\ run' = [run EXCEPT ![p] = on_request_exception(r)]
                [] event = "interrupt" ->
                     /\ tmp' = tmp
                     /\ run' = [run EXCEPT ![p] = on_keyboard_interrupt(r)]
    /\ UNCHANGED <<env, bin, records, desktop, start>>


(***************************************************************************)
(* main(): the steps after a download.                                     *)
(***************************************************************************)
\* main() going from make_executable to update_desktop_file, install_cursor
\* left out.
main_make_executable_then_desktop(p) ==
    /\ run[p].pc = "make_executable"
    /\ run' = [run EXCEPT ![p] =
                 [Did(@, "make_executable") EXCEPT !.successful_checks = @ + 1,
                                                   !.pc = "desktop"]]
    /\ UNCHANGED <<env, bin, tmp, records, desktop, start>>

\* Step 2, make_executable(appimage_path): os.chmod may raise, which is counted.
main_make_executable(p) ==
    /\ run[p].pc = "make_executable"
    /\ \E chmod_ok \in BOOLEAN :
          LET r == Did(run[p], "make_executable")
              n == r.appimage_path
          IN  /\ tmp' = IF chmod_ok /\ Exists(tmp[n])
                        THEN [tmp EXCEPT ![n].exec = TRUE] ELSE tmp
              /\ run' = [run EXCEPT ![p] =
                           IF chmod_ok /\ Exists(tmp[n])
                           THEN [r EXCEPT !.successful_checks = @ + 1, !.pc = "install"]
                           ELSE [r EXCEPT !.failed_checks = @ + 1, !.pc = "install"]]
    /\ UNCHANGED <<env, bin, records, desktop, start>>

\* install_cursor installing to the system path whoever runs it.
install_path_system(e) == system_cursor

\* The install path install_cursor chooses.
install_path(e) == IF is_sudo(e) THEN system_cursor ELSE user_cursor(e.home)

\* Step 3.  move: shutil.move succeeds; fails with nothing written (makedirs or
\* the rename raise); or, the scratch directory being on another filesystem,
\* fails in its copy, which leaves a truncated file at the install path.
\* chmod_ok: the os.chmod of make_executable(install_path) succeeds.
install_cursor(p) ==
    /\ run[p].pc = "install"
    /\ \E move \in {"ok", "fails", "copy_fails"}, chmod_ok \in BOOLEAN :
          LET r == Did(run[p], "install")
              n == r.appimage_path
              dst == install_path(env)
          IN  CASE move = "ok" /\ Exists(tmp[n]) ->
                     /\ bin' = [bin EXCEPT ![dst] =
                                  [tmp[n] EXCEPT !.exec = @ \/ chmod_ok]]
                     /\ tmp' = [tmp EXCEPT ![n] = NoFile]
                     /\ run' = [run EXCEPT ![p] =
                                  [r EXCEPT !.installed_at = dst,
                                            !.successful_checks =
                                                @ + (IF chmod_ok THEN 2 ELSE 1),
                                            !.failed_checks =
                                                @ + (IF chmod_ok THEN 0 ELSE 1),
                                            !.pc = "desktop"]]
                [] move = "copy_fails" /\ Exists(tmp[n]) ->
                     /\ bin' = [bin EXCEPT ![dst] =
                                  [url |-> tmp[n].url, bytes |-> 0, exec |-> FALSE]]
                     /\ tmp' = tmp
                     /\ run' = [run EXCEPT ![p] =
                                  [r EXCEPT !.failed_checks = @ + 1, !.pc = "desktop"]]
                [] OTHER ->
                     /\ bin' = bin
                     /\ tmp' = tmp
                     /\ run' = [run EXCEPT ![p] =
                                  [r EXCEPT !.failed_checks = @ + 1, !.pc = "desktop"]]
    /\ UNCHANGED <<env, records, desktop, start>>

\* except Exception, in main: failed_checks += 1, the summary, sys.exit(1)
on_exception(r) ==
    LET counted == [r EXCEPT !.failed_checks = @ + 1]
    IN  [counted EXCEPT !.pc = "done", !.exit_code = 1, !.why = "exception",
                        !.outcome = "error", !.summary = Summary(counted)]

\* Step 4.  how: the launcher is read and written; reading or writing it
\* raises, which is counted and leaves the launcher as it was; or, the launcher
\* not existing, desktop_file.parent.mkdir raises, outside any try of
\* update_desktop_file.
update_desktop_file(p) ==
    /\ run[p].pc = "desktop"
    /\ \E how \in {"ok", "write_fails", "mkdir_fails"} :
          LET r == Did(run[p], "desktop")
              h == home_path(env)
          IN  /\ how = "mkdir_fails" => desktop[h] = NoDesktop
              /\ desktop' = IF how = "ok"
                            THEN [desktop EXCEPT ![h] =
                                    written_content(@, exec_path(env, bin))]
                            ELSE desktop
              /\ run' = [run EXCEPT ![p] =
                           CASE how = "ok" ->
                                  [r EXCEPT !.successful_checks = @ + 1,
                                            !.launcher_exec = exec_path(env, bin),
                                            !.pc = "version"]
                             [] how = "write_fails" ->
                                  [r EXCEPT !.failed_checks = @ + 1, !.pc = "version"]
                             [] how = "mkdir_fails" -> on_exception(r)]
    /\ UNCHANGED <<env, bin, tmp, records, start>>

\* update_version_file without its write of the primary record.
written_version_files_mirror_only(e) ==
    IF e.script = "lib/main.py"
    THEN <<user_version_file(home_path(e))>>
    ELSE <<projects_version_file(home_path(e))>>

\* The record files update_version_file writes, in the order it writes them.
written_version_files(e) ==
    IF e.script = "lib/main.py"
    THEN <<primary_version_file, user_version_file(home_path(e))>>
    ELSE <<projects_version_file(home_path(e))>>

\* update_version_file with its writes under one try: the first write that
\* fails is counted and ends the function.
update_version_file_one_try(p) ==
    /\ run[p].pc = "version"
    /\ \E oks \in [1..Len(written_version_files(env)) -> BOOLEAN] :
          LET r == Did(run[p], "version")
              vfs == written_version_files(env)
              written == {vfs[i] : i \in {k \in 1..Len(vfs) : \A j \in 1..k : oks[j]}}
          IN  /\ records' = [f \in DOMAIN records |->
                               IF f \in written THEN r.version ELSE records[f]]
              /\ run' = [run EXCEPT ![p] =
                           [r EXCEPT !.successful_checks = @ + Cardinality(written),
                                     !.failed_checks =
                                         @ + (IF Cardinality(written) < Len(vfs)
                                              THEN 1 ELSE 0),
                                     !.pc = "finish"]]
    /\ UNCHANGED <<env, bin, tmp, desktop, start>>

\* update_version_file that leaves a record alone which another run has set
\* to a newer version.
update_version_file_keeps_newer(p) ==
    /\ run[p].pc = "version"
    /\ LET r == Did(run[p], "version")
           vfs == written_version_files(env)
           written == {vfs[i] : i \in {k \in 1..Len(vfs) :
                                          compare_versions(Strip(records[vfs[k]]),
                                                           r.version)}}
       IN  /\ records' = [f \in DOMAIN records |->
                            IF f \in written THEN r.version ELSE records[f]]
           /\ run' = [run EXCEPT ![p] =
                        [r EXCEPT !.successful_checks = @ + Len(vfs), !.pc = "finish"]]
    /\ UNCHANGED <<env, bin, tmp, desktop, start>>

\* Step 5, update_version_file(str(version)).  oks[i]: the i-th write succeeds.
update_version_file(p) ==
    /\ run[p].pc = "version"
    /\ \E oks \in [1..Len(written_version_files(env)) -> BOOLEAN] :
          LET r == Did(run[p], "version")
              vfs == written_version_files(env)
              written == {vfs[i] : i \in {k \in 1..Len(vfs) : oks[k]}}
          IN  /\ records' = [f \in DOMAIN records |->
                               IF f \in written THEN r.version ELSE records[f]]
              /\ run' = [run EXCEPT ![p] =
                           [r EXCEPT !.successful_checks = @ + Cardinality(written),
                                     !.failed_checks =
                                         @ + (Len(vfs) - Cardinality(written)),
                                     !.pc = "finish"]]
    /\ UNCHANGED <<env, bin, tmp, desktop, start>>

\* The message main prints for the result of the pipeline.
reported(appimage_path, version) ==
    IF appimage_path = 0
    THEN IF version = NoVersion THEN "missing_prerequisites" ELSE "up_to_date"
    ELSE "updated"

\* The end of main's try block: the message, the summary, and the return.
main_finish(p) ==
    /\ run[p].pc = "finish"
    /\ LET r == Did(run[p], "finish")
       IN  run' = [run EXCEPT ![p] =
                     [r EXCEPT !.outcome = reported(r.appimage_path, r.version),
                               !.summary = Summary(r),
                               !.exit_code = 0,
                               !.pc = "done"]]
    /\ UNCHANGED <<env, bin, tmp, records, desktop, start>>

(***************************************************************************)
(* The initial states: an environment and the files a machine may hold     *)
(* before a run.                                                           *)
(***************************************************************************)
\* A launcher a desktop environment installed: an Exec line, a TryExec line.
OldDesktop ==
    << <<T("[Desktop Entry]")>>,
       <<ExecKey, T("/opt/cursor/cursor"), T(" %U")>>,
       <<T("Try"), ExecKey, T("cursor")>>,
       <<>> >>

\* The records a machine may hold: <<primary, per-user, current directory>>.
StoredRecords ==
    { <<Absent, Absent, Absent>>,
      <<V140, Absent, Absent>>,
      <<V150 \o <<NL>>, V140, Absent>>,
      <<<<D(1), X>>, Absent, Absent>>,
      <<Absent, V140, V150>> }

InitRecords(e, stored) ==
    [f \in VersionPaths |->
        IF e.script = "lib/main.py"
        THEN CASE f = primary_version_file -> stored[1]
               [] f = user_version_file(home_path(e)) -> stored[2]
               [] f = cwd_version_file -> stored[3]
               [] OTHER -> Absent
        ELSE IF f = projects_version_file(home_path(e)) THEN stored[1] ELSE Absent]

InitFiles ==
    /\ \E system, user \in {NoFile, OldInstall} :
          bin = [f \in InstallPaths |->
                    IF f = system_cursor THEN system
                    ELSE IF f \in {user_cursor(home_path(env)), user_cursor(env.home)}
                    THEN user ELSE NoFile]
    /\ tmp = [n \in TmpNames |-> NoFile]
    /\ \E stored \in StoredRecords : records = InitRecords(env, stored)
    /\ \E d \in {NoDesktop, OldDesktop} :
          desktop = [h \in Homes |-> IF h = home_path(env) THEN d ELSE NoDesktop]

Init ==
    /\ env \in Envs
    /\ InitFiles
    /\ run = [p \in Procs |-> IdleRun]
    /\ start = [p \in Procs |->
                  [bin |-> bin, records |-> records, desktop |-> desktop, tmp |-> tmp]]

Step(p) ==
    \/ main_start(p)
    \/ check_installation_conflicts(p)
    \/ download_find_helper(p)
    \/ download_find_bun(p)
    \/ download_run_fetcher(p)
    \/ download_read_manifest(p)
    \/ download_compare(p)
    \/ download_resolve_url(p)
    \/ download_open(p)
    \/ download_stream(p)
    \/ main_make_executable(p)
    \/ install_cursor(p)
    \/ update_desktop_file(p)
    \/ update_version_file(p)
    \/ main_finish(p)

\* One run of the script.
Next == Step("p1")

Spec == Init /\ [][Next]_vars


(***************************************************************************)
(* update_desktop_file called on its own, twice in succession, on any      *)
(* launcher of at most MaxLines pieces.                                    *)
(***************************************************************************)
Pieces ==
    { <<>>,
      <<T("[Desktop Entry]")>>,
      <<ExecKey, T("/opt/cursor/cursor"), T(" %U")>>,
      <<T("Try"), ExecKey, T("cursor")>>,
      new_exec_line(system_cursor) }

Launchers ==
    {NoDesktop} \cup UNION {[1..n -> Pieces] : n \in 1..MaxLines}

InitLauncher ==
    /\ env \in Envs
    /\ \E system, user \in {NoFile, OldInstall} :
          bin = [f \in InstallPaths |->
                    IF f = system_cursor THEN system
                    ELSE IF f \in {user_cursor(home_path(env)), user_cursor(env.home)}
                    THEN user ELSE NoFile]
    /\ tmp = [n \in TmpNames |-> NoFile]
    /\ records = InitRecords(env, <<Absent, Absent, Absent>>)
    /\ \E d \in Launchers :
          desktop = [h \in Homes |-> IF h = home_path(env) THEN d ELSE NoDesktop]
    /\ run = [p \in Procs |->
                IF p = "p1" THEN [IdleRun EXCEPT !.pc = "desktop"] ELSE IdleRun]
    /\ start = [p \in Procs |->
                  [bin |-> bin, records |-> records, desktop |-> desktop, tmp |-> tmp]]

\* The caller calls update_desktop_file once more.
call_update_desktop_file_again(p) ==
    /\ run[p].pc = "version"
    /\ Len(run[p].steps) < 2
    /\ run' = [run EXCEPT ![p].pc = "desktop"]
    /\ UNCHANGED <<env, bin, tmp, records, desktop, start>>

NextLauncher ==
    \/ update_desktop_file("p1")
    \/ call_update_desktop_file_again("p1")

SpecLauncher == InitLauncher /\ [][NextLauncher]_vars

(***************************************************************************)
(* compare_versions called on its own, on any two strings of at most       *)
(* MaxParts components; and called from download_cursor_appimage, on the   *)
(* record get_current_version finds and a version of the manifest.         *)
(***************************************************************************)
\* The version strings of up to MaxParts numbers, each at most MaxNumber.
SmallVersions ==
    UNION {[1..n -> {D(k) : k \in 0..MaxNumber}] : n \in 1..MaxParts}

\* '1.9.9', '1.10.0' and '2.0.0'; a version with a leading zero or with white
\* space around it; strings int() rejects; the empty string.
OtherStrings ==
    { V(1, 9, 9), V(1, 10, 0), V(2, 0, 0),
      <<D(1), Z(2), D(0)>>, <<D(1), D(2), NL>>,
      <<X>>, <<D(1), X>>, <<D(1), X, D(0)>>, <<>> }

current_versions == SmallVersions \cup OtherStrings \cup {None}
latest_versions == SmallVersions \cup OtherStrings

InitVersions ==
    /\ env \in {Env("lib/main.py", 1000, "", "/home/alice"),
                Env("update-cursor.py", 1000, "", "/home/alice")}
    /\ bin = [f \in InstallPaths |-> NoFile]
    /\ tmp = [n \in TmpNames |-> NoFile]
    /\ desktop = [h \in Homes |-> NoDesktop]
    /\ \/ /\ records = InitRecords(env, <<Absent, Absent, Absent>>)
          /\ \E current_version \in current_versions, latest_version \in latest_versions :
                run = [p \in Procs |->
                         IF p = "p1"
                         THEN [IdleRun EXCEPT !.pc = "call",
                                              !.current_version = current_version,
                                              !.version_string = latest_version]
                         ELSE IdleRun]
       \/ /\ \E stored \in StoredRecords : records = InitRecords(env, stored)
          /\ \E latest_version \in {V140, V150, NoVersion} :
                run = [p \in Procs |->
                         IF p = "p1"
                         THEN [IdleRun EXCEPT !.pc = "compare",
                                              !.version_string = latest_version]
                         ELSE IdleRun]
    /\ start = [p \in Procs |->
                  [bin |-> bin, records |-> records, desktop |-> desktop, tmp |-> tmp]]

\* compare_versions(current_version, latest_version), called on its own.
call_compare_versions(p) ==
    /\ run[p].pc = "call"
    /\ LET r == Did(run[p], "compare_versions")
       IN  run' = [run EXCEPT ![p] =
                     [r EXCEPT !.returned =
                                   <<compare_versions(r.current_version,
                                                      r.version_string)>>,
                               !.pc = "returned"]]
    /\ UNCHANGED <<env, bin, tmp, records, desktop, start>>

NextVersions ==
    \/ call_compare_versions("p1")
    \/ download_compare("p1")

SpecVersions == InitVersions /\ [][NextVersions]_vars

(***************************************************************************)
(* The resolution of the latest version (download_cursor_appimage from its *)
(* reading of the manifest to its comparison) on any manifest of at most   *)
(* MaxEntries entries.                                                     *)
(***************************************************************************)
\* Entries a manifest may list: '1.2' and '1.2.0' (equal once padded), the
\* latter twice with different URLs, two older versions, a version int()
\* rejects, and an entry without a version.
EntryPool ==
    { Entry(<<D(1), D(2)>>, "u12", ""),
      Entry(V(1, 2, 0), "u120", ""),
      Entry(V(1, 2, 0), "u120b", ""),
      Entry(V(1, 0, 0), "u100", ""),
      Entry(V(1, 1, 5), "u115", ""),
      Entry(<<D(1), X>>, "u1x", ""),
      Entry(None, "u-none", "") }

ManifestsUpTo ==
    {ManifestOf(vs) : vs \in UNION {[1..n -> EntryPool] : n \in 0..MaxEntries}}

InitManifest ==
    /\ env = Env("lib/main.py", 1000, "", "/home/alice")
    /\ bin = [f \in InstallPaths |-> NoFile]
    /\ tmp = [n \in TmpNames |-> NoFile]
    /\ desktop = [h \in Homes |-> NoDesktop]
    /\ \E stored \in {<<Absent, Absent, Absent>>, <<V(1, 1, 5), Absent, Absent>>} :
          records = InitRecords(env, stored)
    /\ \E manifest \in ManifestsUpTo :
          run = [p \in Procs |->
                   IF p = "p1"
                   THEN [IdleRun EXCEPT !.pc = "read_manifest",
                                        !.dl_successful = 1,
                                        !.manifest = manifest]
                   ELSE IdleRun]
    /\ start = [p \in Procs |->
                  [bin |-> bin, records |-> records, desktop |-> desktop, tmp |-> tmp]]

NextManifest ==
    \/ download_read_manifest("p1")
    \/ download_compare("p1")

SpecManifest == InitManifest /\ [][NextManifest]_vars

(***************************************************************************)
(* get_current_version called on its own, on any record files, each        *)
(* absent, readable or unreadable.                                         *)
(***************************************************************************)
\* What a record file may hold.
RecordContents == {Absent, V140, V150 \o <<NL>>}

InitRecord ==
    /\ env \in {Env("lib/main.py", 1000, "", "/home/alice"),
                Env("lib/main.py", 0, "alice", "/root"),
                Env("update-cursor.py", 1000, "", "/home/alice")}
    /\ bin = [f \in InstallPaths |-> NoFile]
    /\ tmp = [n \in TmpNames |-> NoFile]
    /\ desktop = [h \in Homes |-> NoDesktop]
    /\ \E stored \in [1..3 -> RecordContents] : records = InitRecords(env, stored)
    /\ \E unreadable \in SUBSET {f \in VersionPaths : records[f] # Absent} :
          run = [p \in Procs |->
                   IF p = "p1"
                   THEN [IdleRun EXCEPT !.pc = "call", !.unreadable = unreadable]
                   ELSE IdleRun]
    /\ start = [p \in Procs |->
                  [bin |-> bin, records |-> records, desktop |-> desktop, tmp |-> tmp]]

\* get_current_version(), called on its own: read_text() raises on the files
\* that cannot be read.
call_get_current_version(p) ==
    /\ run[p].pc = "call"
    /\ LET r == Did(run[p], "get_current_version")
           version_file == found_version_file(env, records)
           read_ok == version_file = <<>> \/ version_file[1] \notin r.unreadable
       IN  run' = [run EXCEPT ![p] =
                     [r EXCEPT !.returned =
                                   <<get_current_version(env, records, read_ok)>>,
                               !.pc = "returned"]]
    /\ UNCHANGED <<env, bin, tmp, records, desktop, start>>

NextRecord == call_get_current_version("p1")

SpecRecord == InitRecord /\ [][NextRecord]_vars

(***************************************************************************)
(* Two runs of the script at once on one machine.  Nothing in the script   *)
(* takes a lock or looks for another run.  Each run has resolved the       *)
(* latest version from the manifest its own fetcher call left: the first   *)
(* found 1.4.0, the second, started after a release, 1.5.0.                *)
(***************************************************************************)
InitConcurrent ==
    /\ env \in {Env("lib/main.py", 1000, "", "/home/alice"),
                Env("lib/main.py", 0, "alice", "/root")}
    /\ bin = [f \in InstallPaths |-> NoFile]
    /\ tmp = [n \in TmpNames |-> NoFile]
    /\ desktop = [h \in Homes |-> NoDesktop]
    /\ records = InitRecords(env, <<Absent, Absent, Absent>>)
    /\ run = [p \in Procs |->
                [IdleRun EXCEPT
                    !.pc = "compare",
                    !.dl_successful = 3,
                    !.latest_version_info =
                        IF p = "p1" THEN Entry(V140, "u140", "")
                        ELSE Entry(V150, "u150", "m150"),
                    !.version_string = IF p = "p1" THEN V140 ELSE V150]]
    /\ start = [p \in Procs |->
                  [bin |-> bin, records |-> records, desktop |-> desktop, tmp |-> tmp]]

\* The steps of a run from its comparison on.
StepAfterManifest(p) ==
    \/ download_compare(p)
    \/ download_resolve_url(p)
    \/ download_open(p)
    \/ download_stream(p)
    \/ main_make_executable(p)
    \/ install_cursor(p)
    \/ update_desktop_file(p)
    \/ update_version_file(p)
    \/ main_finish(p)

\* The scheduler of the machine runs either process.
NextConcurrent == \E p \in Procs : StepAfterManifest(p)

SpecConcurrent == InitConcurrent /\ [][NextConcurrent]_vars

(***************************************************************************)
(* One run on a machine where any of the install paths, under each home    *)
(* directory and the system's, may hold an install.                        *)
(***************************************************************************)
InitHomes ==
    /\ env \in Envs
    /\ bin \in [InstallPaths -> {NoFile, OldInstall}]
    /\ tmp = [n \in TmpNames |-> NoFile]
    /\ desktop = [h \in Homes |-> NoDesktop]
    /\ records = InitRecords(env, <<Absent, Absent, Absent>>)
    /\ run = [p \in Procs |-> IdleRun]
    /\ start = [p \in Procs |->
                  [bin |-> bin, records |-> records, desktop |-> desktop, tmp |-> tmp]]

SpecHomes == InitHomes /\ [][Next]_vars

(***************************************************************************)
(* compare_versions called on each pair of three parseable version strings *)
(* of at most MaxOrderParts components.                                    *)
(***************************************************************************)
\* '1', '1.0', '0.2', ...; '1.9.9' and '1.10.0'; '1.02'; '1.2' with a newline.
OrderVersions ==
    UNION {[1..n -> {D(0), D(1), D(2)}] : n \in 1..MaxOrderParts}
        \cup {V(1, 9, 9), V(1, 10, 0), <<D(1), Z(2)>>, <<D(1), D(2), NL>>}

InitOrder ==
    /\ env = Env("lib/main.py", 1000, "", "/home/alice")
    /\ bin = [f \in InstallPaths |-> NoFile]
    /\ tmp = [n \in TmpNames |-> NoFile]
    /\ desktop = [h \in Homes |-> NoDesktop]
    /\ records = InitRecords(env, <<Absent, Absent, Absent>>)
    /\ \E a, b, c \in OrderVersions :
          run = [p \in Procs |->
                   IF p = "p1"
                   THEN [IdleRun EXCEPT !.pc = "call",
                                        !.current_version = a,
                                        !.version_string = b,
                                        !.version = c]
                   ELSE IdleRun]
    /\ start = [p \in Procs |->
                  [bin |-> bin, records |-> records, desktop |-> desktop, tmp |-> tmp]]

\* compare_versions called on (a, a), (a, b), (b, a), (b, c) and (a, c), where
\* a, b, c are the three strings the run holds.
call_compare_versions_on_three(p) ==
    /\ run[p].pc = "call"
    /\ LET r == Did(run[p], "compare_versions_on_three")
           a == r.current_version
           b == r.version_string
           c == r.version
       IN  run' = [run EXCEPT ![p] =
                     [r EXCEPT !.returned = <<compare_versions(a, a),
                                              compare_versions(a, b),
                                              compare_versions(b, a),
                                              compare_versions(b, c),
                                              compare_versions(a, c)>>,
                               !.pc = "returned"]]
    /\ UNCHANGED <<env, bin, tmp, records, desktop, start>>

NextOrder == call_compare_versions_on_three("p1")

SpecOrder == InitOrder /\ [][NextOrder]_vars

(***************************************************************************)
(* A run at its update_version_file, having installed 1.5.0, and a second  *)
(* run that follows it directly and resolves the same latest version.      *)
(* Each record file holds an older version or does not exist.              *)
(***************************************************************************)
OlderRecords == {Absent, V140, <<D(1), D(3), NL>>}

InitFollowing ==
    /\ env \in {Env("lib/main.py", 1000, "", "/home/alice"),
                Env("lib/main.py", 0, "alice", "/root"),
                Env("update-cursor.py", 1000, "", "/home/alice")}
    /\ bin = [f \in InstallPaths |->
                IF f = install_path(env)
                THEN [url |-> "u150", bytes |-> NumChunks, exec |-> TRUE]
                ELSE NoFile]
    /\ tmp = [n \in TmpNames |-> NoFile]
    /\ desktop = [h \in Homes |->
                    IF h = home_path(env)
                    THEN desktop_content(exec_path(env, bin)) ELSE NoDesktop]
    /\ \E stored \in [1..3 -> OlderRecords] : records = InitRecords(env, stored)
    /\ run = [p \in Procs |->
                IF p = "p1"
                THEN [IdleRun EXCEPT !.pc = "version",
                                     !.version_string = V150,
                                     !.appimage_path = 1,
                                     !.version = V150,
                                     !.installed_at = install_path(env),
                                     !.launcher_exec = exec_path(env, bin)]
                ELSE [IdleRun EXCEPT !.pc = "compare",
                                     !.dl_successful = 3,
                                     !.latest_version_info = Entry(V150, "u150", ""),
                                     !.version_string = V150]]
    /\ start = [p \in Procs |->
                  [bin |-> bin, records |-> records, desktop |-> desktop, tmp |-> tmp]]

\* The comparison of the run that follows: the first run has ended.
following_run_compare(p) ==
    /\ \A q \in Procs \ {p} : run[q].pc = "done"
    /\ download_compare(p)

NextFollowing ==
    \/ update_version_file("p1")
    \/ main_finish("p1")
    \/ following_run_compare("p2")
    \/ main_finish("p2")

SpecFollowing == InitFollowing /\ [][NextFollowing]_vars

(***************************************************************************)
(* The properties.                                                         *)
(***************************************************************************)
StepsOf(r) == {r.steps[i] : i \in 1..Len(r.steps)}

\* Step a is taken, and before any step b.
Precedes(r, a, b) ==
    \E i \in 1..Len(r.steps) :
        /\ r.steps[i] = a
        /\ \A j \in 1..i : r.steps[j] # b

\* The i-th number of a version, the version padded with zeros.
PartAt(parts, i) == IF i <= Len(parts) THEN parts[i] ELSE 0

\* a is an older version than b: at the first place their zero-padded numbers
\* differ, a's is the smaller.
VersionLess(a, b) ==
    LET x == ParseInts(a)
        y == ParseInts(b)
    IN  \E i \in 1..Max(Len(x), Len(y)) :
            /\ \A j \in 1..(i - 1) : PartAt(x, j) = PartAt(y, j)
            /\ PartAt(x, i) < PartAt(y, i)

\* The version record stored when the run started.
StoredAtStart(p) == get_current_version(env, start[p].records, TRUE)

Failures ==
    {"no_helper", "no_bun", "fetch_failed", "no_manifest", "not_json", "unexpected",
     "no_versions", "no_url", "download_failed", "interrupt", "exception"}

NoStepFailed(r) == r.failed_checks = 0 /\ r.why \notin Failures

FilesAsAtStart(p) ==
    /\ bin = start[p].bin
    /\ records = start[p].records
    /\ desktop = start[p].desktop

\* C1: a run that finds the manifest's latest version newer than the stored
\* record, and in which no step fails, downloads, then installs, and ends with
\* get_current_version returning that latest version.
C1_UpdateRecordsLatest ==
    \A p \in Procs :
        LET r == run[p]
        IN  (/\ r.pc = "done"
             /\ r.version_string # None
             /\ CanParse(StoredAtStart(p))
             /\ VersionLess(StoredAtStart(p), r.version_string)
             /\ NoStepFailed(r))
            => /\ Precedes(r, "stream", "install")
               /\ "install" \in StepsOf(r)
               /\ r.installed_at = install_path(env)
               /\ bin[install_path(env)].bytes = NumChunks
               /\ r.outcome = "updated"
               /\ r.exit_code = 0
               /\ get_current_version(env, records, TRUE) = r.version_string

C1_Witness ==
    LET r == run["p1"]
    IN  /\ r.pc = "done"
        /\ StoredAtStart("p1") = V140
        /\ r.version_string = V150
        /\ NoStepFailed(r)
        /\ r.outcome = "updated"

\* C2: a run whose comparison finds the manifest's latest version not newer
\* than the stored record goes from the comparison to its end without a
\* download, leaves the install paths, the launcher, the version records and
\* the scratch directory as they were, and exits 0 with no failure counted.
C2_UpToDateChangesNothing ==
    \A p \in Procs :
        LET r == run[p]
        IN  (/\ "compare" \in StepsOf(r)
             /\ CanParse(r.current_version)
             /\ ~VersionLess(r.current_version, r.version_string))
            => /\ r.pc \in {"finish", "done"}
               /\ r.appimage_path = 0
               /\ StepsOf(r) \cap {"resolve_url", "open", "stream", "make_executable",
                                   "install", "desktop", "version"} = {}
               /\ FilesAsAtStart(p)
               /\ tmp = start[p].tmp
               /\ r.pc = "done" => (r.exit_code = 0 /\ r.summary[1].failed = 0)

C2_Witness ==
    LET r == run["p1"]
    IN  /\ r.pc = "done"
        /\ r.current_version = V150
        /\ r.version_string = V150
        /\ r.outcome = "up_to_date"
        /\ Exists(bin[system_cursor])

\* C3: after a failure of install_cursor (the artifact is not moved to the
\* install path) neither update_desktop_file nor update_version_file runs.
C3_InstallFailureIsTerminal ==
    \A p \in Procs :
        LET r == run[p]
        IN  ("install" \in StepsOf(r) /\ r.installed_at = NoPath)
            => StepsOf(r) \cap {"desktop", "version"} = {}

\* C4: a run ended by a failure of step 1 or 2 (no helper, no Bun, the fetcher
\* exiting non-zero) exits non-zero; exit code 0 comes only with a successful
\* update or with the up-to-date outcome.
C4_PrerequisiteFailureExitsNonZero ==
    \A p \in Procs :
        LET r == run[p]
        IN  r.pc = "done"
            => /\ r.why \in {"no_helper", "no_bun", "fetch_failed"} => r.exit_code # 0
               /\ (r.exit_code = 0 /\ r.outcome # "help")
                      => r.why \in {"", "uptodate"}

\* C5: a run is at its install steps only with a scratch file that holds the
\* whole body; and a run whose download broke off (network error, interrupt)
\* ends reporting the failure, exits non-zero, and leaves the install paths as
\* they were.
C5_NoPartialDownloadInstalled ==
    \A p \in Procs :
        LET r == run[p]
        IN  /\ r.pc \in {"make_executable", "install"}
                => tmp[r.appimage_path].bytes = NumChunks
            /\ r.why \in {"download_failed", "interrupt"}
                => /\ r.pc = "done"
                   /\ r.exit_code = 1
                   /\ r.outcome \in {"failed", "cancelled"}
                   /\ bin = start[p].bin
                   /\ StepsOf(r) \cap {"make_executable", "install"} = {}

C5_Witness ==
    LET r == run["p1"]
    IN  /\ r.why \in {"download_failed", "interrupt"}
        /\ r.temp_file # 0
        /\ tmp[r.temp_file].bytes \in 1..(NumChunks - 1)
        /\ Exists(bin[install_path(env)])

\* C6: when a run that started a download has ended, no scratch file it
\* created remains: the file was moved to the install path or is gone.
C6_NoScratchFileRemains ==
    \A p \in Procs :
        (run[p].pc = "done" /\ "open" \in StepsOf(run[p]))
            => \A n \in TmpNames : Exists(tmp[n]) => Exists(start[p].tmp[n])

\* C7: after install_cursor has placed the artifact, the path
\* update_desktop_file writes into the launcher is the path it was placed at.
C7_LauncherPointsAtInstalledPath ==
    \A p \in Procs :
        LET r == run[p]
        IN  (r.installed_at # NoPath /\ r.launcher_exec # NoPath)
            => r.launcher_exec = r.installed_at

\* C8: a second successful call of update_desktop_file in succession, the
\* installs unchanged, leaves the launcher as the first call left it.
C8_UpdateDesktopFileIdempotent ==
    [][(/\ run["p1"].pc = "desktop"
        /\ run["p1"].successful_checks >= 1
        /\ run'["p1"].successful_checks = run["p1"].successful_checks + 1)
       => desktop' = desktop]_vars

\* Two calls have succeeded on a launcher that existed and had no Exec= in it.
C8_Witness ==
    /\ run["p1"].successful_checks = 2
    /\ start["p1"].desktop[home_path(env)] # NoDesktop
    /\ ~re_search(start["p1"].desktop[home_path(env)])
    /\ re_search(desktop[home_path(env)])

\* A piece that is an executable-invocation line: it starts with the key Exec=.
IsExecLine(piece) == piece # <<>> /\ piece[1] = ExecKey

\* C9: on an existing launcher update_desktop_file changes at most its one
\* executable-invocation line, or appends one if there is none; every other
\* line, one that contains 'Exec=' elsewhere included, stays as it was.
C9_OnlyTheExecLineChanges ==
    \A p \in Procs :
        LET r == run[p]
            old == start[p].desktop[home_path(env)]
            new == desktop[home_path(env)]
        IN  (r.launcher_exec # NoPath /\ old # NoDesktop)
            => IF \E i \in 1..Len(old) : IsExecLine(old[i])
               THEN /\ Len(new) = Len(old)
                    /\ \A j \in 1..Len(old) : IsExecLine(old[j]) \/ new[j] = old[j]
               ELSE /\ Len(new) >= Len(old)
                    /\ SubSeq(new, 1, Len(old)) = old

\* The probes of check_installation_conflicts when the run started.
SystemInstalled(p) == Exists(start[p].bin[system_cursor])
UserInstalled(p) == Exists(start[p].bin[user_cursor(home_path(env))])

\* C10 as stated: one conflict when both installs exist, none otherwise.
C10_OneConflictIffBoth ==
    \A p \in Procs :
        "conflicts" \in StepsOf(run[p])
            => Len(run[p].conflicts) =
                  IF SystemInstalled(p) /\ UserInstalled(p) THEN 1 ELSE 0

\* C10 as amended: check_installation_conflicts reports the both-installs
\* conflict exactly when both exist, and one more conflict whenever the
\* install of the other mode exists (the user install on an elevated run, the
\* system install on a non-elevated one): two conflicts when both exist, one
\* when only the other mode's install exists, none when only the run's own
\* mode's install or neither exists.
C10_ConflictsReported ==
    \A p \in Procs :
        LET other == IF is_sudo(env) THEN UserInstalled(p) ELSE SystemInstalled(p)
            both == SystemInstalled(p) /\ UserInstalled(p)
        IN  "conflicts" \in StepsOf(run[p])
            => /\ Len(run[p].conflicts) =
                     (IF both THEN 1 ELSE 0) + (IF other THEN 1 ELSE 0)
               /\ both => Len(run[p].conflicts) = 2
               /\ (~both /\ other) => Len(run[p].conflicts) = 1
               /\ ~other => run[p].conflicts = <<>>
               /\ both <=> "Both system-wide and user-specific installations found"
                              \in {run[p].conflicts[i] : i \in 1..Len(run[p].conflicts)}

C10_Witness ==
    /\ "conflicts" \in StepsOf(run["p1"])
    /\ SystemInstalled("p1")
    /\ UserInstalled("p1")
    /\ Len(run["p1"].conflicts) = 2

\* C11: the conflict check is advisory.  Its step changes nothing but the list
\* of conflicts it reports: whatever that list holds, the files stay as they
\* were, no counter, result or exit code is set, and the run goes on to the
\* first step of download_cursor_appimage; no later step changes the list, and
\* every run that ended after the check entered the pipeline.
C11_ConflictsAreAdvisory ==
    /\ [](\A p \in Procs :
            ("conflicts" \in StepsOf(run[p]) /\ run[p].pc = "done")
                => Precedes(run[p], "conflicts", "find_helper")
                   /\ "find_helper" \in StepsOf(run[p]))
    /\ [][\A p \in Procs :
            /\ run[p].pc = "conflicts"
                  => /\ run'[p] = [Did(run[p], "conflicts") EXCEPT
                                     !.conflicts = run'[p].conflicts,
                                     !.pc = "find_helper"]
                     /\ <<bin, tmp, records, desktop>>' = <<bin, tmp, records, desktop>>
            /\ run[p].pc # "conflicts"
                  => run'[p].conflicts = run[p].conflicts]_vars

\* A run that reported two conflicts went through the whole pipeline.
C11_Witness ==
    LET r == run["p1"]
    IN  /\ r.pc = "done"
        /\ Len(r.conflicts) = 2
        /\ r.outcome = "updated"
        /\ r.installed_at = install_path(env)
        /\ r.exit_code = 0

\* The value compare_versions returned to the run that called it on its own.
Returned(r) == r.returned[1]

\* C12: on two strings that parse compare_versions returns true exactly when
\* latest is the greater after the shorter is padded with zeros and the numbers
\* are compared from the left: it is false both ways for '1.2.0' and '1.2',
\* true for current '1.9.9' and latest '1.10.0', false for current '2.0.0'
\* and latest '1.9.9'.
C12_CompareVersionsPadded ==
    \A p \in Procs :
        LET r == run[p]
        IN  (r.pc = "returned" /\ CanParse(r.current_version)
                               /\ CanParse(r.version_string))
            => /\ Returned(r) = VersionLess(r.current_version, r.version_string)
               /\ (r.current_version = V(1, 2, 0) /\ r.version_string = <<D(1), D(2)>>)
                     => Returned(r) = FALSE
               /\ (r.current_version = <<D(1), D(2)>> /\ r.version_string = V(1, 2, 0))
                     => Returned(r) = FALSE
               /\ (r.current_version = V(1, 9, 9) /\ r.version_string = V(1, 10, 0))
                     => Returned(r) = TRUE
               /\ (r.current_version = V(2, 0, 0) /\ r.version_string = V(1, 9, 9))
                     => Returned(r) = FALSE

C12_Witness ==
    LET r == run["p1"]
    IN  /\ r.pc = "returned"
        /\ r.current_version = <<D(1), D(2)>>
        /\ r.version_string = V(1, 2, 0)
        /\ Returned(r) = FALSE

\* C13: compare_versions returns true when the current version is absent, and
\* when the current or the candidate string has a component that is no
\* integer; and a run whose record is missing or does not parse goes from the
\* comparison on to the download.
C13_CompareVersionsFailsOpen ==
    \A p \in Procs :
        LET r == run[p]
        IN  /\ (r.pc = "returned" /\ (\/ r.current_version = None
                                      \/ ~CanParse(r.current_version)
                                      \/ ~CanParse(r.version_string)))
                  => Returned(r) = TRUE
            /\ ("compare" \in StepsOf(r) /\ ~CanParse(r.current_version))
                  => r.pc = "resolve_url" /\ r.why # "uptodate"

\* A record that does not parse sent the run on to the download.
C13_Witness ==
    LET r == run["p1"]
    IN  /\ "compare" \in StepsOf(r)
        /\ r.current_version = <<D(1), X>>
        /\ r.pc = "resolve_url"

\* The entries of a manifest that have a version int() can read.
Parseable(versions) ==
    {i \in 1..Len(versions) : ~Falsy(versions[i].version) /\ CanParse(versions[i].version)}

\* The first of the entries that no entry exceeds in the zero-padded order.
FirstMaximal(versions) ==
    LET maximal == {i \in Parseable(versions) :
                       \A j \in Parseable(versions) :
                           ~VersionLess(versions[i].version, versions[j].version)}
    IN  CHOOSE i \in maximal : \A k \in maximal : i <= k

\* C14: the entry selected as the latest is the greatest in the zero-padded
\* order of compare_versions, and of several greatest entries ('1.2' followed
\* by '1.2.0') it is the first.
C14_FirstMaximalEntrySelected ==
    \A p \in Procs :
        LET r == run[p]
        IN  (r.pc = "compare" /\ r.manifest.state = "json")
            => /\ \A j \in Parseable(r.manifest.versions) :
                     ~VersionLess(r.latest_version_info.version,
                                  r.manifest.versions[j].version)
               /\ r.latest_version_info =
                     r.manifest.versions[FirstMaximal(r.manifest.versions)]

\* C15: an entry whose version does not parse is skipped: a manifest with any
\* entry that parses gets its latest version selected and the run goes on to
\* the comparison.
C15_UnparseableEntrySkipped ==
    \A p \in Procs :
        LET r == run[p]
        IN  (/\ "read_manifest" \in StepsOf(r)
             /\ r.manifest.state = "json"
             /\ Parseable(r.manifest.versions) # {})
            => /\ r.pc = "compare"
               /\ r.version_string # None
               /\ r.exit_code = -1

\* The steps from the download on.
DownloadSteps == {"open", "stream", "make_executable", "install", "desktop", "version"}

\* The run ended in terminal failure, having downloaded and changed nothing.
FailedUntouched(p) ==
    LET r == run[p]
    IN  /\ r.pc = "done"
        /\ r.exit_code = 1
        /\ r.outcome = "failed"
        /\ StepsOf(r) \cap DownloadSteps = {}
        /\ FilesAsAtStart(p)
        /\ tmp = start[p].tmp

\* C16: when, after the fetcher succeeded, the manifest file is absent, is not
\* JSON, or holds no entry with a version, the run ends in terminal failure
\* with a non-zero exit code; it downloads nothing and leaves the install
\* paths, the launcher and the version records as they were.
C16_UnusableManifestIsTerminal ==
    \A p \in Procs :
        LET r == run[p]
            versions == r.manifest.versions
        IN  (/\ "read_manifest" \in StepsOf(r)
             /\ r.version_string = None
             /\ \/ r.manifest.state \in {"absent", "notjson"}
                \/ \A i \in 1..Len(versions) : Falsy(versions[i].version))
            => /\ FailedUntouched(p)
               /\ r.why \in {"no_manifest", "not_json", "no_versions"}

\* The manifest held one entry, without a version, on a machine with an
\* install, a record and a launcher.
C16_Witness ==
    LET r == run["p1"]
    IN  /\ r.pc = "done"
        /\ r.why = "no_versions"
        /\ Len(r.manifest.versions) = 1
        /\ Exists(bin[install_path(env)])
        /\ records[primary_version_file] = V140
        /\ desktop[home_path(env)] = OldDesktop

\* The URLs the manifests list for platforms other than linux-x64.
OtherPlatformUrls ==
    UNION {{m.versions[i].platforms.darwin_arm64 : i \in 1..Len(m.versions)} :
              m \in Manifests} \ {""}

C18_FirstReadableRecord ==
    \A p \in Procs :
        LET r == run[p]
            vfs == version_files(env)
            readable == {i \in 1..Len(vfs) :
                            records[vfs[i]] # Absent /\ vfs[i] \notin r.unreadable}
        IN  (r.pc = "returned" /\ "get_current_version" \in StepsOf(r))
            => Returned(r) =
                  IF readable = {} THEN None
                  ELSE Strip(records[vfs[CHOOSE i \in readable :
                                             \A k \in readable : i <= k]])

\* 1 for a write that succeeded or failed as asked, 0 otherwise.
Count(b) == IF b THEN 1 ELSE 0

\* C19: update_version_file of src/lib/main.py writes the primary record and
\* the per-user mirror as two attempts, neither depending on the other: each
\* either sets its file to the version and counts one success, or leaves its
\* file as it was and counts one failure; whatever fails, the function returns
\* and the run ends reporting the update with exit code 0.
C19_MirrorWriteIndependent ==
    /\ [][\A p \in Procs :
            (run[p].pc = "version" /\ env.script = "lib/main.py"
                                   /\ run'[p] # run[p])
            => \E primary_ok, mirror_ok \in BOOLEAN :
                  LET mirror == user_version_file(home_path(env))
                  IN  /\ records' =
                            [f \in DOMAIN records |->
                                IF f = primary_version_file /\ primary_ok
                                THEN run[p].version
                                ELSE IF f = mirror /\ mirror_ok
                                THEN run[p].version
                                ELSE records[f]]
                      /\ run'[p].successful_checks =
                            run[p].successful_checks
                                + Count(primary_ok) + Count(mirror_ok)
                      /\ run'[p].failed_checks =
                            run[p].failed_checks
                                + Count(~primary_ok) + Count(~mirror_ok)
                      /\ run'[p].pc = "finish"
                      /\ run'[p].exit_code = -1]_vars
    /\ [](\A p \in Procs :
            ("version" \in StepsOf(run[p]) /\ run[p].pc = "done")
                => run[p].exit_code = 0 /\ run[p].outcome = "updated")

\* The mirror write failed alone: the primary record holds the new version,
\* the mirror what it held, one failure is counted and the run ended well.
C19_Witness ==
    LET r == run["p1"]
        mirror == user_version_file(home_path(env))
    IN  /\ env.script = "lib/main.py"
        /\ r.pc = "done"
        /\ "version" \in StepsOf(r)
        /\ records[primary_version_file] = V150
        /\ start["p1"].records[primary_version_file] = V140
        /\ records[mirror] = Absent
        /\ r.failed_checks = 1
        /\ r.exit_code = 0

\* C20: when the update of the launcher or a write of the version record fails
\* after the artifact was placed, the failure is counted, the install stays in
\* place, the remaining steps run, and the run ends reporting the update with
\* exit code 0.
C20_AuxiliaryFailureNotFatal ==
    \A p \in Procs :
        LET r == run[p]
        IN  (/\ r.pc = "done"
             /\ r.installed_at # NoPath
             /\ "desktop" \in StepsOf(r)
             /\ \/ r.launcher_exec = NoPath
                \/ \E i \in 1..Len(written_version_files(env)) :
                       records[written_version_files(env)[i]] # r.version)
            => /\ r.failed_checks >= 1
               /\ bin[r.installed_at].bytes = NumChunks
               /\ "version" \in StepsOf(r)
               /\ r.outcome = "updated"
               /\ r.exit_code = 0

\* C21: every run that passed the parsing of its arguments has printed the
\* summary when it has ended, whatever ended it, and the counts printed include
\* the operations download_cursor_appimage had counted before the end.
C21_SummaryAlwaysPrinted ==
    \A p \in Procs :
        LET r == run[p]
        IN  (r.pc = "done" /\ r.outcome # "help")
            => /\ r.summary # <<>>
               /\ r.summary[1].successful >= r.dl_successful
               /\ r.summary[1].failed >= r.dl_failed

\* C22: install_cursor writes one install path: the system path on an elevated
\* run, the path under the home directory of the process otherwise.  A move
\* that succeeds puts the downloaded artifact there in place of whatever was
\* there and takes it out of the scratch directory; every other install path
\* stays as it was.
C22_InstallWritesOnePath ==
    [][\A p \in Procs :
        (run[p].pc = "install" /\ run'[p] # run[p])
        => LET dst == IF env.euid = 0 THEN system_cursor ELSE user_cursor(env.home)
               n == run[p].appimage_path
           IN  /\ \A f \in InstallPaths \ {dst} : bin'[f] = bin[f]
               /\ run'[p].installed_at \in {NoPath, dst}
               /\ run'[p].installed_at = dst
                     => /\ bin'[dst].url = tmp[n].url
                        /\ bin'[dst].bytes = tmp[n].bytes
                        /\ tmp'[n] = NoFile]_vars

\* A non-elevated run replaced the user install and left the system install.
C22_Witness ==
    LET r == run["p1"]
    IN  /\ env.euid # 0
        /\ r.installed_at = user_cursor(env.home)
        /\ start["p1"].bin[user_cursor(env.home)] = OldInstall
        /\ bin[user_cursor(env.home)].url # "old"
        /\ bin[system_cursor] = OldInstall

\* C23: a run that ended because the stored record is up to date reports the
\* up-to-date outcome, and only a run that ended on a missing prerequisite
\* reports the missing-prerequisite outcome, whatever the manifest's latest
\* version (a latest version of '0.0.0' included) and the stored record are.
C23_UpToDateReportedDistinctly ==
    \A p \in Procs :
        LET r == run[p]
        IN  r.pc = "done"
            => /\ r.why = "uptodate" => r.outcome = "up_to_date"
               /\ r.outcome = "missing_prerequisites"
                     => r.why \in {"no_helper", "no_bun", "fetch_failed"}

\* The file at the install path of the runs.
Installed == bin[IF env.euid = 0 THEN system_cursor ELSE user_cursor(env.home)]

\* C24: two runs at once are not coordinated.  A run's move puts its artifact
\* at the install path whatever the other run has put there, and a run's
\* writes set the version records to its version whatever the other run has
\* written: the last writer of each wins.  So the state is reached (the
\* witness) in which both runs have ended without a failure and the record
\* names the version of one run while the install path holds the artifact of
\* the other.
C24_LastWriterWins ==
    [][\A p \in Procs :
        /\ (run[p].pc = "install" /\ run'[p].installed_at # NoPath)
              => /\ bin'[run'[p].installed_at].url = tmp[run[p].appimage_path].url
                 /\ bin'[run'[p].installed_at].bytes = tmp[run[p].appimage_path].bytes
        /\ (run[p].pc = "version" /\ run'[p].pc = "finish"
                                  /\ run'[p].failed_checks = run[p].failed_checks)
              => \A i \in 1..Len(written_version_files(env)) :
                     records'[written_version_files(env)[i]] = run[p].version]_vars

\* Both runs ended reporting the update, no failure counted: the record names
\* 1.4.0, the version of the first run, and the install path holds the
\* artifact of 1.5.0 the second run moved there.
C24_Witness ==
    /\ \A p \in Procs : /\ run[p].pc = "done"
                        /\ run[p].outcome = "updated"
                        /\ run[p].failed_checks = 0
    /\ records[primary_version_file] = V140
    /\ Installed.url = "u150"
    /\ Installed.bytes = NumChunks

\* The scratch file a run holds: the one it streams into, then the one it was
\* returned, until install_cursor has moved it.
Owns(r, n) ==
    \/ r.pc = "stream" /\ r.temp_file = n
    \/ r.pc \in {"make_executable", "install"} /\ r.appimage_path = n

\* C25: the scratch file of a run is its own: no two runs hold the same
\* scratch file, the file a run holds exists, and a step of one run leaves the
\* scratch file the other run holds as it was.
C25_ScratchFileOwnedByItsRun ==
    /\ [](\A p \in Procs : \A n \in TmpNames :
            Owns(run[p], n)
                => /\ Exists(tmp[n])
                   /\ \A q \in Procs \ {p} : ~Owns(run[q], n))
    /\ [][\A p \in Procs : \A q \in Procs \ {p} : \A n \in TmpNames :
            (run'[p] # run[p] /\ Owns(run[q], n)) => tmp'[n] = tmp[n]]_vars

\* Both runs are streaming, each into its own file.
C25_Witness ==
    /\ run["p1"].pc = "stream"
    /\ run["p2"].pc = "stream"
    /\ run["p1"].temp_file # run["p2"].temp_file
    /\ tmp[run["p1"].temp_file].bytes >= 1
    /\ tmp[run["p2"].temp_file].bytes >= 1
    /\ tmp[run["p1"].temp_file].url # tmp[run["p2"].temp_file].url

\* The home directory of the user SUDO_USER names: /home/<SUDO_USER>.
InvokingHome ==
    IF env.SUDO_USER = "alice" THEN "/home/alice"
    ELSE IF env.SUDO_USER = "root" THEN "/home/root"
    ELSE env.home

C27_StepsInFixedOrder ==
    \A p \in Procs :
        LET r == run[p]
            S == StepsOf(r)
        IN  /\ "open" \in S => Precedes(r, "compare", "open")
            /\ "stream" \in S => Precedes(r, "open", "stream")
            /\ "install" \in S => Precedes(r, "stream", "install")
            /\ r.pc = "install" => tmp[r.appimage_path].bytes = NumChunks
            /\ "desktop" \in S => Precedes(r, "install", "desktop")
            /\ "version" \in S => /\ Precedes(r, "desktop", "version")
                                  /\ Precedes(r, "install", "version")
            /\ (r.pc # "idle" /\ records # start[p].records) => "install" \in S

\* A run took all the steps and the record was written.
C27_Witness ==
    LET r == run["p1"]
    IN  /\ r.pc = "done"
        /\ {"compare", "open", "stream", "install", "desktop", "version"} \subseteq StepsOf(r)
        /\ records # start["p1"].records
        /\ r.installed_at # NoPath

\* Two versions with the same numbers once the shorter is padded with zeros.
PaddedEqual(a, b) ==
    \A i \in 1..Max(Len(ParseInts(a)), Len(ParseInts(b))) :
        PartAt(ParseInts(a), i) = PartAt(ParseInts(b), i)

\* C28: on strings that parse compare_versions is the strict part of a total
\* order: compare_versions(a, a) is false; compare_versions(a, b) and
\* compare_versions(b, a) are never both true, and one of them is true unless a
\* and b are equal once padded; and compare_versions(a, b) with
\* compare_versions(b, c) gives compare_versions(a, c).
C28_CompareVersionsStrictOrder ==
    \A p \in Procs :
        LET r == run[p]
            a == r.current_version
            b == r.version_string
            aa == r.returned[1]
            ab == r.returned[2]
            ba == r.returned[3]
            bc == r.returned[4]
            ac == r.returned[5]
        IN  (r.pc = "returned" /\ Len(r.returned) = 5)
            => /\ ~aa
               /\ ~(ab /\ ba)
               /\ (ab \/ ba) <=> ~PaddedEqual(a, b)
               /\ (ab /\ bc) => ac

\* '1' <  '1.2' < '1.10.0' was compared, and '1' < '1.10.0' came out.
C28_Witness ==
    LET r == run["p1"]
    IN  /\ r.pc = "returned"
        /\ r.current_version = <<D(1)>>
        /\ r.version_string = <<D(1), D(2)>>
        /\ r.version = V(1, 10, 0)
        /\ r.returned = <<FALSE, TRUE, FALSE, TRUE, TRUE>>

\* C29: within a non-elevated run the home directory under which install_cursor
\* places the artifact is the one the other functions use: the launcher that
\* update_desktop_file writes and the per-user record lie under it, and the
\* launcher names the path under it, SUDO_USER set or not.
C29_OneHomePerNonElevatedRun ==
    \A p \in Procs :
        LET r == run[p]
            h == r.installed_at[1]
        IN  (env.euid # 0 /\ r.installed_at # NoPath)
            => /\ h = home_path(env)
               /\ r.launcher_exec # NoPath
                     => /\ desktop[h] # NoDesktop
                        /\ r.launcher_exec[1] \in {h, ""}
               /\ \A g \in Homes \ {h} :
                     /\ desktop[g] = start[p].desktop[g]
                     /\ \A f \in VersionPaths : f[1] = g => records[f] = start[p].records[f]

\* C30: when the preflight of download_cursor_appimage has passed, the helper
\* file the command line then names is the file the preflight found, and it
\* exists, whichever of the three locations the preflight found it at.
C30_ExecutedHelperIsVerified ==
    \A p \in Procs :
        LET r == run[p]
        IN  r.pc \in {"find_bun", "fetch"}
            => /\ helper_run(env.script, r.script_dir) = r.ts_file
               /\ r.helper_there

\* The record files update_version_file writes that hold v.
HoldV(v) ==
    {i \in 1..Len(written_version_files(env)) : records[written_version_files(env)[i]] = v}

\* The first record of the priority order is v: the primary record holds v, or
\* does not exist while the per-user record holds v.
FirstRecordIs(v) ==
    \E i \in HoldV(v) :
        \A k \in 1..(i - 1) : records[written_version_files(env)[k]] = Absent

\* The following run has compared, and its read of the record did not fail.
FollowingRunCompared == "compare" \in StepsOf(run["p2"]) /\ run["p2"].current_version # None

\* C31 as stated: after update_version_file(v) has written v to at least one
\* of its locations, the next get_current_version returns v whatever older
\* records exist, and the run that follows with the same latest version ends
\* as up to date.
C31_WrittenVersionIsRead ==
    LET v == run["p1"].version
        r == run["p2"]
    IN  (FollowingRunCompared /\ HoldV(v) # {})
        => /\ r.current_version = v
           /\ r.why = "uptodate"

\* C31 as amended: after update_version_file(v) has written v to the primary
\* location, or to the per-user location while no primary record exists, the
\* next get_current_version returns v, whatever older records exist at the
\* locations after it, and the run that follows with the same latest version
\* ends as up to date, exit code 0, with nothing downloaded; when v was
\* written to the per-user location only and an older primary record exists,
\* get_current_version returns that older record and the run that follows goes
\* on to download.
C31_FirstRecordIsRead ==
    LET v == run["p1"].version
        r == run["p2"]
        first == records[written_version_files(env)[1]]
    IN  FollowingRunCompared
        => /\ FirstRecordIs(v)
                => /\ r.current_version = v
                   /\ r.why = "uptodate"
                   /\ r.appimage_path = 0
                   /\ r.pc = "done" => (r.outcome = "up_to_date" /\ r.exit_code = 0)
           /\ (HoldV(v) # {} /\ ~FirstRecordIs(v))
                => /\ r.current_version = Strip(first)
                   /\ r.current_version # v
                   /\ r.pc = "resolve_url"

\* The primary record, which held 1.4.0, was written, the per-user write
\* failed, the current directory holds an older record, and the run that
\* followed ended as up to date.
C31_Witness ==
    /\ env.script = "lib/main.py"
    /\ start["p1"].records[primary_version_file] = V140
    /\ records[primary_version_file] = V150
    /\ records[user_version_file(home_path(env))] = V140
    /\ records[cwd_version_file] = V140
    /\ run["p1"].failed_checks = 1
    /\ run["p2"].pc = "done"
    /\ run["p2"].current_version = V150
    /\ run["p2"].outcome = "up_to_date"

====
